---- MODULE Spec2Model ----
(***************************************************************************)
(* Model of dags/mlflow-dag.py: the DAG using_gcs_for_xcom_ds with its     *)
(* four tasks load_data, preprocessing, feature_engineering and            *)
(* cross_validation.                                                       *)
(*                                                                         *)
(* Four specifications share this module:                                  *)
(*   SpecData  preprocessing and feature_engineering applied to bounded    *)
(*             synthetic data frames;                                      *)
(*   SpecBin   pd.cut as called for the age column, on every integer age;  *)
(*   Spec      one DAG run: the scheduler's dependency chain and the       *)
(*             steps of cross_validation against the tracking backend;     *)
(*   SpecConc  several DAG runs executing the tracking calls of            *)
(*             cross_validation concurrently against one backend.          *)
(*                                                                         *)
(* Strings are sequences of atoms: " " is one whitespace character, every  *)
(* other atom ("?", "Private", ...) is a run of non-whitespace characters. *)
(* Column names are strings too, so 'workclass' is <<"workclass">> and     *)
(* the dummy column 'workclass_Private' is <<"workclass","_","Private">>.  *)
(* A data frame is [columns, dtypes, rows]; a row is [na, v] where na is   *)
(* the set of columns whose cell is missing (NaN) and v the cell values.   *)
(***************************************************************************)
EXTENDS Integers, Sequences, FiniteSets, TLC

VARIABLES
    \* --- SpecData: XCom values of the first three tasks
    raw_df, clean_data, features, dpc,
    \* --- SpecBin
    age, age_bins, bpc,
    \* --- Spec: one DAG run
    state, try_number, xcom, pc, y_val, y_pred, experiments,
    active_experiment, run_status, metrics, logged, create_exc, failed_at,
    raised,
    \* --- SpecConc: concurrent DAG runs against one backend
    cpc, cexperiments, cruns, cexc

dataVars == <<raw_df, clean_data, features, dpc>>
binVars  == <<age, age_bins, bpc>>
pipeVars == <<state, try_number, xcom, pc, y_val, y_pred, experiments,
              active_experiment, run_status, metrics, logged, create_exc,
              failed_at, raised>>
concVars == <<cpc, cexperiments, cruns, cexc>>
vars     == <<dataVars, binVars, pipeVars, concVars>>

----------------------------------------------------------------------------
(* Bounds *)

MaxRows == 2        \* rows of a synthetic input frame
MaxAge  == 104      \* ages 0..MaxAge are binned
MaxVal  == 2        \* rows of the validation subset
NRuns   == 3        \* concurrent DAG runs

----------------------------------------------------------------------------
(* Generic helpers *)

Range(s) == {s[i] : i \in 1..Len(s)}

SeqsUpTo(S, n) == UNION {[1..k -> S] : k \in 0..n}

NonEmptySeqsUpTo(S, n) == UNION {[1..k -> S] : k \in 1..n}

----------------------------------------------------------------------------
(* Python str methods used by the lambda of line 68 *)

IsSpace(a) == a = " "

RECURSIVE rstrip(_)
rstrip(x) ==
    IF x = <<>> THEN x
    ELSE IF IsSpace(x[Len(x)]) THEN rstrip(SubSeq(x, 1, Len(x) - 1))
    ELSE x

RECURSIVE lstrip(_)
lstrip(x) ==
    IF x = <<>> THEN x
    ELSE IF IsSpace(Head(x)) THEN lstrip(Tail(x))
    ELSE x

\* lambda x: x.rstrip().lstrip()
strip_lambda(x) == lstrip(rstrip(x))

\* lambda x: 'Unknown' if x == '?' else x
unknown_lambda(x) == IF x = <<"?">> THEN <<"Unknown">> ELSE x

----------------------------------------------------------------------------
(* pandas operations on a data frame *)

\* columns of bigquery-public-data.ml_datasets.census_adult_income
ObjectColumns ==
    {<<"workclass">>, <<"education">>, <<"marital_status">>, <<"occupation">>,
     <<"relationship">>, <<"race">>, <<"sex">>, <<"native_country">>,
     <<"income_bracket">>}

IntColumns ==
    {<<"age">>, <<"functional_weight">>, <<"education_num">>,
     <<"capital_gain">>, <<"capital_loss">>, <<"hours_per_week">>}

CensusColumns == ObjectColumns \cup IntColumns

CensusDtypes ==
    [c \in CensusColumns |-> IF c \in ObjectColumns THEN "object" ELSE "int64"]

\* df.dropna(): a row is kept when none of its cells is missing
dropna(df) ==
    [df EXCEPT !.rows = SelectSeq(df.rows, LAMBDA r : r.na = {})]

\* df.drop_duplicates(): keep='first', rows compared on all columns
RECURSIVE KeepFirst(_, _)
KeepFirst(rows, seen) ==
    IF rows = <<>> THEN <<>>
    ELSE IF Head(rows) \in seen THEN KeepFirst(Tail(rows), seen)
    ELSE <<Head(rows)>> \o KeepFirst(Tail(rows), seen \cup {Head(rows)})

drop_duplicates(df) == [df EXCEPT !.rows = KeepFirst(df.rows, {})]

\* df[col] = df[col].apply(lambda x: x.rstrip().lstrip())
ApplyStrip(df, col) ==
    [df EXCEPT !.rows =
        [i \in 1..Len(df.rows) |->
            [df.rows[i] EXCEPT !.v[col] = strip_lambda(df.rows[i].v[col])]]]

\* df[col] = df[col].apply(lambda x: 'Unknown' if x == '?' else x)
ApplyUnknown(df, col) ==
    [df EXCEPT !.rows =
        [i \in 1..Len(df.rows) |->
            [df.rows[i] EXCEPT !.v[col] = unknown_lambda(df.rows[i].v[col])]]]

\* df.drop(columns=cols): KeyError unless every label is a column
CanDrop(df, cols) == cols \subseteq df.columns

drop(df, cols) ==
    LET keep == df.columns \ cols IN
    [columns |-> keep,
     dtypes  |-> [c \in keep |-> df.dtypes[c]],
     rows    |-> [i \in 1..Len(df.rows) |->
                    [na |-> df.rows[i].na \cap keep,
                     v  |-> [c \in keep |-> df.rows[i].v[c]]]]]

\* df[col] = values: add or replace a column; nas[i] says the cell is NaN
Assign(df, col, dtype, vals, nas) ==
    LET cs == df.columns \cup {col} IN
    [columns |-> cs,
     dtypes  |-> [c \in cs |-> IF c = col THEN dtype ELSE df.dtypes[c]],
     rows    |-> [i \in 1..Len(df.rows) |->
                    [na |-> IF nas[i] THEN df.rows[i].na \cup {col}
                            ELSE df.rows[i].na \ {col},
                     v  |-> [c \in cs |-> IF c = col THEN vals[i]
                                          ELSE df.rows[i].v[c]]]]]

\* the values of a column that are not missing
Categories(df, col) ==
    {df.rows[i].v[col] : i \in {j \in 1..Len(df.rows) : col \notin df.rows[j].na}}

\* f'{prefix}_{value}'
DummyName(prefix, value) == <<prefix, "_">> \o value

HasPrefix(name, prefix) ==
    Len(name) >= 2 /\ name[1] = prefix /\ name[2] = "_"

\* get_dummies as if called with drop_first=True: the indicator column of one
\* category (here the one of the first row) is not produced
get_dummies_drop_first(df, prefix, col) ==
    LET all   == Categories(df, col)
        cats  == IF df.rows = <<>> THEN all ELSE all \ {df.rows[1].v[col]}
        dums  == {DummyName(prefix, x) : x \in cats}
        rest  == df.columns \ {col}
        cs    == rest \cup dums
        hot(r, x) == IF col \notin r.na /\ r.v[col] = x THEN 1 ELSE 0
    IN
    [columns |-> cs,
     dtypes  |-> [c \in cs |-> IF c \in rest THEN df.dtypes[c] ELSE "uint8"],
     rows    |-> [i \in 1..Len(df.rows) |->
                    [na |-> df.rows[i].na \cap rest,
                     v  |-> [c \in cs |->
                               IF c \in rest THEN df.rows[i].v[c]
                               ELSE hot(df.rows[i],
                                        CHOOSE x \in cats : DummyName(prefix, x) = c)]]]]

\* pd.get_dummies(df, prefix=prefix, columns=[col]): one indicator column per
\* category of col, 1 in the rows holding that category; col is removed
get_dummies(df, prefix, col) ==
    LET cats  == Categories(df, col)
        dums  == {DummyName(prefix, x) : x \in cats}
        rest  == df.columns \ {col}
        cs    == rest \cup dums
        hot(r, x) == IF col \notin r.na /\ r.v[col] = x THEN 1 ELSE 0
    IN
    [columns |-> cs,
     dtypes  |-> [c \in cs |-> IF c \in rest THEN df.dtypes[c] ELSE "uint8"],
     rows    |-> [i \in 1..Len(df.rows) |->
                    [na |-> df.rows[i].na \cap rest,
                     v  |-> [c \in cs |->
                               IF c \in rest THEN df.rows[i].v[c]
                               ELSE hot(df.rows[i],
                                        CHOOSE x \in cats : DummyName(prefix, x) = c)]]]]

\* numpy searchsorted(bins, x, side='left'): how many edges are below x
searchsorted_left(bins, x) == Cardinality({i \in 1..Len(bins) : bins[i] < x})

\* pd.cut as if called with include_lowest=True: the lowest edge joins bin 1
cut_include_lowest(x, bins, labels) ==
    LET id0 == searchsorted_left(bins, x)
        id  == IF x = bins[1] THEN 1 ELSE id0 IN
    IF id = 0 \/ id = Len(bins) THEN [na |-> TRUE, v |-> 0]
    ELSE [na |-> FALSE, v |-> labels[id]]

\* pd.cut(x, bins, labels) with right=True, include_lowest=False: the row is
\* missing when the id is 0 or len(bins), else it carries labels[id - 1]
cut(x, bins, labels) ==
    LET id == searchsorted_left(bins, x) IN
    IF id = 0 \/ id = Len(bins) THEN [na |-> TRUE, v |-> 0]
    ELSE [na |-> FALSE, v |-> labels[id]]

AgeBinEdges  == <<16, 29, 39, 49, 59, 100>>
AgeBinLabels == <<1, 2, 3, 4, 5>>

\* lambda x: 1 if x == 'Never-married' else 0
never_married_lambda(x) == IF x = <<"Never-married">> THEN 1 ELSE 0

----------------------------------------------------------------------------
(* The tasks preprocessing and feature_engineering *)

SentinelColumns == {<<"workclass">>, <<"occupation">>, <<"native_country">>}

UnusedColumns ==
    {<<"education_num">>, <<"relationship">>, <<"functional_weight">>}

\* lines 65-68: strip every cell of every column of dtype object
RECURSIVE StripObjects(_, _)
StripObjects(df, cols) ==
    IF cols = {} THEN df
    ELSE LET c == CHOOSE c \in cols : TRUE IN
         StripObjects(IF df.dtypes[c] = "object"
                      THEN ApplyStrip(df, c) ELSE df,
                      cols \ {c})

\* lines 72-74
ReplaceSentinels(df) ==
    ApplyUnknown(ApplyUnknown(ApplyUnknown(df, <<"workclass">>),
                              <<"occupation">>),
                 <<"native_country">>)

PreprocessingRaises(df) ==
    \/ ~(SentinelColumns \subseteq df.columns)
    \/ ~CanDrop(df, UnusedColumns)

\* preprocessing with lines 72-74 moved in front of lines 65-68
preprocessing_sentinels_first(df) ==
    drop(StripObjects(ReplaceSentinels(drop_duplicates(dropna(df))), df.columns),
         UnusedColumns)

preprocessing(df) ==
    drop(ReplaceSentinels(StripObjects(drop_duplicates(dropna(df)), df.columns)),
         UnusedColumns)

OneHotColumns ==
    <<"workclass", "education", "occupation", "race", "sex",
      "income_bracket", "native_country">>

\* line 112 naming the derived label instead of the column it was derived from
RedundantColumns_label ==
    {<<"income_bracket", "_", "<=50K">>, <<"never_married">>, <<"age">>}

RedundantColumns ==
    {<<"income_bracket", "_", "<=50K">>, <<"marital_status">>, <<"age">>}

\* lines 94-100
RECURSIVE OneHot(_, _)
OneHot(df, names) ==
    IF names = <<>> THEN df
    ELSE OneHot(get_dummies(df, Head(names), <<Head(names)>>), Tail(names))

\* line 104
BinAges(df) ==
    LET b(i) == cut(df.rows[i].v[<<"age">>], AgeBinEdges, AgeBinLabels) IN
    Assign(df, <<"age_bins">>, "category",
           [i \in 1..Len(df.rows) |-> b(i).v],
           [i \in 1..Len(df.rows) |-> b(i).na])

\* line 108
DeriveLabel(df) ==
    Assign(df, <<"never_married">>, "int64",
           [i \in 1..Len(df.rows) |->
               never_married_lambda(df.rows[i].v[<<"marital_status">>])],
           [i \in 1..Len(df.rows) |-> FALSE])

FeaturesBeforeDrop(df) == DeriveLabel(BinAges(OneHot(df, OneHotColumns)))

\* line 112 raises KeyError when one of the three labels is not a column
FeatureEngineeringRaises(df) == ~CanDrop(FeaturesBeforeDrop(df), RedundantColumns)

feature_engineering(df) == drop(FeaturesBeforeDrop(df), RedundantColumns)

----------------------------------------------------------------------------
(* Synthetic census rows: one base row and rows that differ from it in the *)
(* cells the two tasks look at.                                            *)

BaseCells ==
    [c \in CensusColumns |->
        CASE c = <<"age">>               -> 39
          [] c = <<"functional_weight">> -> 1
          [] c = <<"education_num">>     -> 13
          [] c = <<"capital_gain">>      -> 0
          [] c = <<"capital_loss">>      -> 0
          [] c = <<"hours_per_week">>    -> 40
          [] c = <<"workclass">>         -> <<"Private">>
          [] c = <<"education">>         -> <<"Bachelors">>
          [] c = <<"marital_status">>    -> <<"Never-married">>
          [] c = <<"occupation">>        -> <<"Sales">>
          [] c = <<"relationship">>      -> <<"Husband">>
          [] c = <<"race">>              -> <<"White">>
          [] c = <<"sex">>               -> <<"Male">>
          [] c = <<"native_country">>    -> <<"United-States">>
          [] c = <<"income_bracket">>    -> <<"<=50K">>]

BaseRow == [na |-> {}, v |-> BaseCells]

SyntheticRows ==
    { BaseRow,
      \* equal to the base row once stripped
      [BaseRow EXCEPT !.v[<<"workclass">>] = <<" ", "Private">>],
      \* '?' between whitespace, other bracket, other marital status
      [BaseRow EXCEPT !.v[<<"workclass">>] = <<" ", "?", " ">>,
                      !.v[<<"marital_status">>] = <<"Divorced">>,
                      !.v[<<"income_bracket">>] = <<">50K">>],
      \* bare '?' and '?' followed by whitespace
      [BaseRow EXCEPT !.v[<<"occupation">>] = <<"?">>,
                      !.v[<<"native_country">>] = <<"?", " ">>],
      \* equal to the base row once the unused columns are dropped
      [BaseRow EXCEPT !.v[<<"functional_weight">>] = 2],
      \* a missing cell
      [BaseRow EXCEPT !.na = {<<"relationship">>},
                      !.v[<<"relationship">>] = <<>>],
      \* already 'Unknown', age on the lowest edge, label value not stripped
      [BaseRow EXCEPT !.v[<<"workclass">>] = <<"Unknown">>,
                      !.v[<<"age">>] = 16,
                      !.v[<<"marital_status">>] = <<" ", "Never-married">>,
                      !.v[<<"income_bracket">>] = <<">50K">>],
      [BaseRow EXCEPT !.v[<<"sex">>] = <<"Female">>,
                      !.v[<<"age">>] = 60,
                      !.v[<<"race">>] = <<"Black">>,
                      !.v[<<"marital_status">>] = <<"Never-married", " ", "x">>] }

Frame(rows) == [columns |-> CensusColumns, dtypes |-> CensusDtypes, rows |-> rows]

InputFrames == {Frame(rows) : rows \in SeqsUpTo(SyntheticRows, MaxRows)}

NoDf == [columns |-> {}, dtypes |-> <<>>, rows |-> <<>>]

----------------------------------------------------------------------------
(* Idle values of the variable groups a specification does not use *)

IdleData ==
    /\ raw_df = NoDf /\ clean_data = NoDf /\ features = NoDf /\ dpc = "idle"

IdleBin == age = 0 /\ age_bins = [na |-> TRUE, v |-> 0] /\ bpc = "idle"

IdlePipe ==
    /\ state = <<>> /\ try_number = <<>> /\ xcom = {} /\ pc = "idle"
    /\ y_val = <<>> /\ y_pred = <<>>
    /\ experiments = <<>> /\ active_experiment = "" /\ run_status = "none"
    /\ metrics = {} /\ logged = {} /\ create_exc = "none"
    /\ failed_at = "none" /\ raised = "none"

IdleConc == cpc = <<>> /\ cexperiments = <<>> /\ cruns = {} /\ cexc = <<>>

----------------------------------------------------------------------------
(* SpecData: load_data's result through preprocessing and                  *)
(* feature_engineering (lines 209-211)                                     *)

InitData ==
    /\ raw_df \in InputFrames
    /\ clean_data = NoDf
    /\ features = NoDf
    /\ dpc = "preprocessing"
    /\ IdleBin /\ IdlePipe /\ IdleConc

Preprocessing ==
    /\ dpc = "preprocessing"
    /\ IF PreprocessingRaises(raw_df)
       THEN dpc' = "preprocessing_failed" /\ clean_data' = clean_data
       ELSE dpc' = "feature_engineering" /\ clean_data' = preprocessing(raw_df)
    /\ UNCHANGED <<raw_df, features, binVars, pipeVars, concVars>>

FeatureEngineering ==
    /\ dpc = "feature_engineering"
    /\ IF FeatureEngineeringRaises(clean_data)
       THEN dpc' = "feature_engineering_failed" /\ features' = features
       ELSE dpc' = "cross_validation" /\ features' = feature_engineering(clean_data)
    /\ UNCHANGED <<raw_df, clean_data, binVars, pipeVars, concVars>>

NextData == Preprocessing \/ FeatureEngineering

SpecData == InitData /\ [][NextData]_vars

----------------------------------------------------------------------------
(* SpecBin: line 104 on every integer age *)

InitBin ==
    /\ age \in 0..MaxAge
    /\ age_bins = [na |-> TRUE, v |-> 0]
    /\ bpc = "input"
    /\ IdleData /\ IdlePipe /\ IdleConc

CutAge ==
    /\ bpc = "input"
    /\ age_bins' = cut(age, AgeBinEdges, AgeBinLabels)
    /\ bpc' = "binned"
    /\ UNCHANGED <<age, dataVars, pipeVars, concVars>>

NextBin == CutAge

SpecBin == InitBin /\ [][NextBin]_vars

----------------------------------------------------------------------------
(* The DAG: tasks, dependencies and task-instance states *)

Tasks == <<"load_data", "preprocessing", "feature_engineering", "cross_validation">>

TaskSet == Range(Tasks)

DataTasks == {"load_data", "preprocessing", "feature_engineering"}

\* lines 209-212 with every dependency left out
Upstream_unchained == [t \in TaskSet |-> {}]

\* lines 209-212: each task takes the return value of the one before it
Upstream ==
    [t \in TaskSet |->
        CASE t = "load_data"           -> {}
          [] t = "preprocessing"       -> {"load_data"}
          [] t = "feature_engineering" -> {"preprocessing"}
          [] t = "cross_validation"    -> {"feature_engineering"}]

\* @dag(...) passes no default_args and no task sets retries
Retries == 0

\* state of a task instance whose attempt raised
AfterFailure(t) == IF try_number[t] <= Retries THEN "up_for_retry" ELSE "failed"

\* trigger rule all_success (the default): every upstream task succeeded
UpstreamDone(t) == \A u \in Upstream[t] : state[u] = "success"

UpstreamFailed(t) == \E u \in Upstream[t] : state[u] \in {"failed", "upstream_failed"}

----------------------------------------------------------------------------
(* The tracking backend and the calls cross_validation makes on it *)

ExperimentName == "census_prediction"

ExperimentExists(exps, name) == \E i \in 1..Len(exps) : exps[i] = name

\* mlflow.create_experiment: the exception it raises on this backend state
\* when the backend answers ("none" when the experiment is created)
CreateExperimentExc(exps, name) ==
    IF ExperimentExists(exps, name) THEN "already_exists" ELSE "none"

\* the experiments of the backend after an answered create_experiment call
CreateExperimentResult(exps, name) ==
    IF ExperimentExists(exps, name) THEN exps ELSE Append(exps, name)

\* lines 139-143 without the except clause: every exception propagates
ExceptPass_none(exc) == FALSE

\* lines 142-143, "except: pass": every exception is swallowed
ExceptPass(exc) == TRUE

\* mlflow.set_experiment: the experiment is created when it does not exist
SetExperimentResult(exps, name) ==
    IF ExperimentExists(exps, name) THEN exps ELSE Append(exps, name)

\* leaving the with block on an exception without ending the run
RunScopeExit_leak(exc_raised) == IF exc_raised THEN "RUNNING" ELSE "FINISHED"

\* line 150, leaving "with mlflow.start_run(...)": the run is ended, FAILED
\* when an exception leaves the block and FINISHED otherwise
RunScopeExit(exc_raised) == IF exc_raised THEN "FAILED" ELSE "FINISHED"

----------------------------------------------------------------------------
(* numpy / sklearn computations of lines 171-183 *)

\* scores in tenths: 0.5 and 0.6
PredLevels == {5, 6}

Labels == {0, 1}

\* np.where(y_pred > 0.5, 1, 0)
y_pred_class(scores) == [i \in 1..Len(scores) |-> IF scores[i] > 5 THEN 1 ELSE 0]

RECURSIVE Sorted(_)
Sorted(S) ==
    IF S = {} THEN <<>>
    ELSE LET m == CHOOSE m \in S : \A x \in S : m <= x IN <<m>> \o Sorted(S \ {m})

\* sklearn confusion_matrix(y_true, y_pred) with labels=None: the labels are
\* the sorted values occurring in y_true or y_pred
confusion_matrix(y_true, y_p) ==
    LET labels == Sorted(Range(y_true) \cup Range(y_p))
        n == Len(labels)
    IN [i \in 1..n |-> [j \in 1..n |->
            Cardinality({k \in 1..Len(y_true) :
                            y_true[k] = labels[i] /\ y_p[k] = labels[j]})]]

\* ndarray.ravel() of a square matrix, row-major
ravel(cm) ==
    LET n == Len(cm) IN
    [k \in 1..(n * n) |-> cm[((k - 1) \div n) + 1][((k - 1) % n) + 1]]

\* t_n, f_p, f_n, t_p = cm.ravel() raises ValueError unless there are 4 values
UnpackRaises(cells) == Len(cells) # 4

\* lines 184-187
ConfusionMetrics(cells) ==
    {<<"True Positive", cells[4]>>, <<"True Negative", cells[1]>>,
     <<"False Positive", cells[2]>>, <<"False Negatives", cells[3]>>}

----------------------------------------------------------------------------
(* Spec: one DAG run *)

Init ==
    /\ state = [t \in TaskSet |-> "none"]
    /\ try_number = [t \in TaskSet |-> 0]
    /\ xcom = {}
    /\ pc = "idle"
    /\ y_val = <<>> /\ y_pred = <<>>
    /\ experiments \in {<<>>, <<ExperimentName>>}
    /\ active_experiment = ""
    /\ run_status = "none"
    /\ metrics = {} /\ logged = {}
    /\ create_exc = "none" /\ failed_at = "none" /\ raised = "none"
    /\ IdleData /\ IdleBin /\ IdleConc

others == <<dataVars, binVars, concVars>>

\* the scheduler queues a task whose upstream tasks all succeeded
StartTask ==
    \E t \in TaskSet :
        /\ state[t] \in {"none", "up_for_retry"}
        /\ UpstreamDone(t)
        /\ state' = [state EXCEPT ![t] = "running"]
        /\ try_number' = [try_number EXCEPT ![t] = @ + 1]
        /\ pc' = IF t = "cross_validation" THEN "train_test_split" ELSE pc
        /\ UNCHANGED <<xcom, y_val, y_pred, experiments, active_experiment,
                       run_status, metrics, logged, create_exc, failed_at,
                       raised, others>>

\* a task whose upstream failed is never run
MarkUpstreamFailed ==
    \E t \in TaskSet :
        /\ state[t] = "none"
        /\ UpstreamFailed(t)
        /\ state' = [state EXCEPT ![t] = "upstream_failed"]
        /\ UNCHANGED <<try_number, xcom, pc, y_val, y_pred, experiments,
                       active_experiment, run_status, metrics, logged,
                       create_exc, failed_at, raised, others>>

\* load_data, preprocessing or feature_engineering returns its data frame
TaskReturns ==
    \E t \in DataTasks :
        /\ state[t] = "running"
        /\ state' = [state EXCEPT ![t] = "success"]
        /\ xcom' = xcom \cup {t}
        /\ UNCHANGED <<try_number, pc, y_val, y_pred, experiments,
                       active_experiment, run_status, metrics, logged,
                       create_exc, failed_at, raised, others>>

\* load_data, preprocessing or feature_engineering raises
TaskRaises ==
    \E t \in DataTasks :
        /\ state[t] = "running"
        /\ state' = [state EXCEPT ![t] = AfterFailure(t)]
        /\ UNCHANGED <<try_number, xcom, pc, y_val, y_pred, experiments,
                       active_experiment, run_status, metrics, logged,
                       create_exc, failed_at, raised, others>>

\* an exception leaves cross_validation at step, the run being in status
Abort(step, exc, status) ==
    /\ state' = [state EXCEPT !["cross_validation"] = AfterFailure("cross_validation")]
    /\ pc' = "raised"
    /\ failed_at' = step
    /\ raised' = exc
    /\ run_status' = status

\* lines 128-134
TrainTestSplit ==
    /\ pc = "train_test_split"
    /\ \/ /\ \E y \in NonEmptySeqsUpTo(Labels, MaxVal) : y_val' = y
          /\ pc' = "set_tracking_uri"
          /\ UNCHANGED <<state, failed_at, raised, run_status>>
       \/ /\ Abort("train_test_split", "Exception", run_status)
          /\ UNCHANGED y_val
    /\ UNCHANGED <<try_number, xcom, y_pred, experiments, active_experiment,
                   metrics, logged, create_exc, others>>

\* line 138
SetTrackingUri ==
    /\ pc = "set_tracking_uri"
    /\ pc' = "create_experiment"
    /\ UNCHANGED <<state, try_number, xcom, y_val, y_pred, experiments,
                   active_experiment, run_status, metrics, logged, create_exc,
                   failed_at, raised, others>>

\* lines 139-143: the backend answers (created / already exists) or the call
\* fails for another reason; the except clause decides what happens next
CreateExperiment ==
    /\ pc = "create_experiment"
    /\ \E exc \in {CreateExperimentExc(experiments, ExperimentName), "other"} :
          /\ create_exc' = exc
          /\ experiments' = IF exc = "other" THEN experiments
                            ELSE CreateExperimentResult(experiments, ExperimentName)
          /\ IF exc = "none" \/ ExceptPass(exc)
             THEN /\ pc' = "set_experiment"
                  /\ UNCHANGED <<state, failed_at, raised, run_status>>
             ELSE Abort("create_experiment", exc, run_status)
    /\ UNCHANGED <<try_number, xcom, y_val, y_pred, active_experiment,
                   metrics, logged, others>>

\* line 145
SetExperiment ==
    /\ pc = "set_experiment"
    /\ \/ /\ experiments' = SetExperimentResult(experiments, ExperimentName)
          /\ active_experiment' = ExperimentName
          /\ pc' = "autolog"
          /\ UNCHANGED <<state, failed_at, raised, run_status>>
       \/ /\ Abort("set_experiment", "Exception", run_status)
          /\ UNCHANGED <<experiments, active_experiment>>
    /\ UNCHANGED <<try_number, xcom, y_val, y_pred, metrics, logged,
                   create_exc, others>>

\* line 147
Autolog ==
    /\ pc = "autolog"
    /\ pc' = "start_run"
    /\ UNCHANGED <<state, try_number, xcom, y_val, y_pred, experiments,
                   active_experiment, run_status, metrics, logged, create_exc,
                   failed_at, raised, others>>

\* line 150, entering the with block
StartRun ==
    /\ pc = "start_run"
    /\ \/ /\ run_status' = "RUNNING"
          /\ pc' = "cv"
          /\ UNCHANGED <<state, failed_at, raised>>
       \/ Abort("start_run", "Exception", run_status)
    /\ UNCHANGED <<try_number, xcom, y_val, y_pred, experiments,
                   active_experiment, metrics, logged, create_exc, others>>

\* a step inside the with block: it completes and logs, or it raises and the
\* exception leaves the block
InRun(step, next, logs) ==
    /\ pc = step
    /\ \/ /\ pc' = next
          /\ logged' = logged \cup logs
          /\ UNCHANGED <<state, failed_at, raised, run_status>>
       \/ /\ Abort(step, "Exception", RunScopeExit(TRUE))
          /\ UNCHANGED logged

\* lines 151-160
CrossValidate ==
    /\ InRun("cv", "train", {"params", "cv_metrics"})
    /\ UNCHANGED <<try_number, xcom, y_val, y_pred, experiments,
                   active_experiment, metrics, create_exc, others>>

\* lines 163-169
Train ==
    /\ InRun("train", "predict", {})
    /\ UNCHANGED <<try_number, xcom, y_val, y_pred, experiments,
                   active_experiment, metrics, create_exc, others>>

\* lines 171-172
Predict ==
    /\ pc = "predict"
    /\ \/ /\ \E scores \in [1..Len(y_val) -> PredLevels] : y_pred' = scores
          /\ pc' = "classification_report"
          /\ UNCHANGED <<state, failed_at, raised, run_status>>
       \/ /\ Abort("predict", "Exception", RunScopeExit(TRUE))
          /\ UNCHANGED y_pred
    /\ UNCHANGED <<try_number, xcom, y_val, experiments, active_experiment,
                   metrics, logged, create_exc, others>>

\* lines 175-178
ClassificationReport ==
    /\ InRun("classification_report", "confusion_matrix", {"cr_metrics"})
    /\ UNCHANGED <<try_number, xcom, y_val, y_pred, experiments,
                   active_experiment, metrics, create_exc, others>>

\* lines 182-187
ConfusionMatrix ==
    /\ pc = "confusion_matrix"
    /\ LET cells == ravel(confusion_matrix(y_val, y_pred_class(y_pred))) IN
       IF UnpackRaises(cells)
       THEN /\ Abort("confusion_matrix", "ValueError", RunScopeExit(TRUE))
            /\ UNCHANGED metrics
       ELSE \/ /\ metrics' = metrics \cup ConfusionMetrics(cells)
               /\ pc' = "confusion_matrix_plot"
               /\ UNCHANGED <<state, failed_at, raised, run_status>>
            \/ /\ Abort("confusion_matrix", "MlflowException", RunScopeExit(TRUE))
               /\ UNCHANGED metrics
    /\ UNCHANGED <<try_number, xcom, y_val, y_pred, experiments,
                   active_experiment, logged, create_exc, others>>

\* lines 189-193
ConfusionMatrixPlot ==
    /\ InRun("confusion_matrix_plot", "roc_curve", {"confusion_matrix.png"})
    /\ UNCHANGED <<try_number, xcom, y_val, y_pred, experiments,
                   active_experiment, metrics, create_exc, others>>

\* lines 197-205, then the with block and the task end
RocCurve ==
    /\ pc = "roc_curve"
    /\ \/ /\ logged' = logged \cup {"roc_curve.png"}
          /\ run_status' = RunScopeExit(FALSE)
          /\ state' = [state EXCEPT !["cross_validation"] = "success"]
          /\ pc' = "returned"
          /\ UNCHANGED <<failed_at, raised>>
       \/ /\ Abort("roc_curve", "Exception", RunScopeExit(TRUE))
          /\ UNCHANGED logged
    /\ UNCHANGED <<try_number, xcom, y_val, y_pred, experiments,
                   active_experiment, metrics, create_exc, others>>

Next ==
    \/ StartTask \/ MarkUpstreamFailed \/ TaskReturns \/ TaskRaises
    \/ TrainTestSplit \/ SetTrackingUri \/ CreateExperiment \/ SetExperiment
    \/ Autolog \/ StartRun \/ CrossValidate \/ Train \/ Predict
    \/ ClassificationReport \/ ConfusionMatrix \/ ConfusionMatrixPlot
    \/ RocCurve

Spec == Init /\ [][Next]_vars

----------------------------------------------------------------------------
(* SpecConc: NRuns DAG runs execute lines 139-205 of cross_validation      *)
(* against one backend; the backend answers one call at a time and every   *)
(* worker keeps running                                                    *)

Runs == 1..NRuns

InitConc ==
    /\ cpc = [r \in Runs |-> "create_experiment"]
    /\ cexperiments \in {<<>>, <<ExperimentName>>}
    /\ cruns = [r \in Runs |-> "none"]
    /\ cexc = [r \in Runs |-> "none"]
    /\ IdleData /\ IdleBin /\ IdlePipe

quiet == <<dataVars, binVars, pipeVars>>

\* lines 139-143
ConcCreateExperiment(r) ==
    /\ cpc[r] = "create_experiment"
    /\ LET exc == CreateExperimentExc(cexperiments, ExperimentName) IN
       /\ cexc' = [cexc EXCEPT ![r] = exc]
       /\ cexperiments' = CreateExperimentResult(cexperiments, ExperimentName)
       /\ cpc' = [cpc EXCEPT ![r] = IF exc = "none" \/ ExceptPass(exc)
                                    THEN "set_experiment" ELSE "raised"]
    /\ UNCHANGED <<cruns, quiet>>

\* line 145
ConcSetExperiment(r) ==
    /\ cpc[r] = "set_experiment"
    /\ cexperiments' = SetExperimentResult(cexperiments, ExperimentName)
    /\ cpc' = [cpc EXCEPT ![r] = "start_run"]
    /\ UNCHANGED <<cruns, cexc, quiet>>

\* line 150, entering the with block
ConcStartRun(r) ==
    /\ cpc[r] = "start_run"
    /\ cruns' = [cruns EXCEPT ![r] = "RUNNING"]
    /\ cpc' = [cpc EXCEPT ![r] = "in_run"]
    /\ UNCHANGED <<cexperiments, cexc, quiet>>

\* lines 151-205: the body of the with block returns or raises
ConcRunScope(r) ==
    /\ cpc[r] = "in_run"
    /\ \E exc_raised \in BOOLEAN :
          /\ cruns' = [cruns EXCEPT ![r] = RunScopeExit(exc_raised)]
          /\ cpc' = [cpc EXCEPT ![r] = IF exc_raised THEN "raised" ELSE "returned"]
    /\ UNCHANGED <<cexperiments, cexc, quiet>>

ConcStep(r) ==
    \/ ConcCreateExperiment(r) \/ ConcSetExperiment(r)
    \/ ConcStartRun(r) \/ ConcRunScope(r)

NextConc ==
    \E r \in Runs :
        \/ ConcCreateExperiment(r) \/ ConcSetExperiment(r)
        \/ ConcStartRun(r) \/ ConcRunScope(r)

SpecConc ==
    InitConc /\ [][NextConc]_vars /\ \A r \in Runs : WF_vars(ConcStep(r))

----------------------------------------------------------------------------
(* Properties of preprocessing (SpecData) *)

CleanerReturned ==
    dpc \in {"feature_engineering", "cross_validation", "feature_engineering_failed"}

FeatureBuilderActed == dpc \in {"cross_validation", "feature_engineering_failed"}

FeatureBuilderReturned == dpc = "cross_validation"

RowIds(df) == 1..Len(df.rows)

NoMissingRow(df) == \A i \in RowIds(df) : df.rows[i].na = {}

NoDuplicateRow(df) ==
    \A i, j \in RowIds(df) : i # j => df.rows[i] # df.rows[j]

\* C4: the record set returned by the Cleaner has no row with a missing
\* value and no two rows that are exactly equal.
C4_CleanerNoMissingNoDuplicate ==
    CleanerReturned => NoMissingRow(clean_data) /\ NoDuplicateRow(clean_data)

\* C7: in every row returned by the Cleaner, workclass, occupation and
\* native_country are never the literal '?', also when the input cell was
\* '?' surrounded by whitespace.
C7_NoSentinelAfterCleaning ==
    CleanerReturned =>
        \A i \in RowIds(clean_data) : \A c \in SentinelColumns :
            clean_data.rows[i].v[c] # <<"?">>

\* a kept input row had '?' between whitespace and came out as 'Unknown'
C7_Witness ==
    /\ CleanerReturned
    /\ \E i \in RowIds(raw_df) :
          /\ raw_df.rows[i].na = {}
          /\ raw_df.rows[i].v[<<"workclass">>] = <<" ", "?", " ">>
    /\ \E i \in RowIds(raw_df) :
          /\ raw_df.rows[i].na = {}
          /\ raw_df.rows[i].v[<<"native_country">>] = <<"?", " ">>
    /\ \E i \in RowIds(clean_data) :
          clean_data.rows[i].v[<<"workclass">>] = <<"Unknown">>
    /\ \E i \in RowIds(clean_data) :
          clean_data.rows[i].v[<<"native_country">>] = <<"Unknown">>

----------------------------------------------------------------------------
(* Properties of feature_engineering (SpecData) *)

Indicators(df, prefix) == {c \in df.columns : HasPrefix(c, prefix)}

HotColumns(df, i, prefix) ==
    {c \in Indicators(df, prefix) : df.rows[i].v[c] = 1}

RECURSIVE SumCells(_, _)
SumCells(r, cols) ==
    IF cols = {} THEN 0
    ELSE LET c == CHOOSE c \in cols : TRUE IN r.v[c] + SumCells(r, cols \ {c})

IndicatorSum(df, i, prefix) == SumCells(df.rows[i], Indicators(df, prefix))

\* exactly the indicator of the row's own (cleaned) value is 1
ExactlyOwnHot(i, prefix) ==
    HotColumns(features, i, prefix)
        = {DummyName(prefix, clean_data.rows[i].v[<<prefix>>])}

\* C6: in the record set returned by the Feature Builder, every row has, for
\* each of the seven expanded columns, exactly one indicator equal to 1 (the
\* one of its original value), and the indicators never sum to more than 1.
C6_ExactlyOneHot ==
    FeatureBuilderReturned =>
        \A i \in RowIds(features) : \A k \in 1..Len(OneHotColumns) :
            /\ ExactlyOwnHot(i, OneHotColumns[k])
            /\ IndicatorSum(features, i, OneHotColumns[k]) <= 1

\* C6 as amended: exactly one for the six columns other than income_bracket;
\* for income_bracket the indicator of '<=50K' has been dropped, so a row of
\* that bracket has no indicator equal to 1 and every other row exactly one.
C6_ExactlyOneHotButDropped ==
    FeatureBuilderReturned =>
        \A i \in RowIds(features) : \A k \in 1..Len(OneHotColumns) :
            LET p == OneHotColumns[k] IN
            /\ IndicatorSum(features, i, p) <= 1
            /\ IF p = "income_bracket"
                  /\ clean_data.rows[i].v[<<"income_bracket">>] = <<"<=50K">>
               THEN HotColumns(features, i, p) = {}
               ELSE ExactlyOwnHot(i, p)

\* the Feature Builder returned two rows of different bracket and workclass
C6_Witness ==
    /\ FeatureBuilderReturned
    /\ \E i, j \in RowIds(features) :
          /\ clean_data.rows[i].v[<<"income_bracket">>] = <<"<=50K">>
          /\ clean_data.rows[j].v[<<"income_bracket">>] = <<">50K">>
          /\ clean_data.rows[i].v[<<"workclass">>]
                # clean_data.rows[j].v[<<"workclass">>]
          /\ HotColumns(features, j, "income_bracket")
                = {<<"income_bracket", "_", ">50K">>}

DistinctValues(df, col) == Cardinality(Categories(df, col))

LabelPresent(df) ==
    /\ <<"never_married">> \in df.columns
    /\ \A i \in RowIds(df) :
          /\ <<"never_married">> \notin df.rows[i].na
          /\ df.rows[i].v[<<"never_married">>] \in {0, 1}

LabelMatches ==
    \A i \in RowIds(features) :
        features.rows[i].v[<<"never_married">>] = 1
            <=> clean_data.rows[i].v[<<"marital_status">>] = <<"Never-married">>

\* C10: running the Cleaner and then the Feature Builder on a synthetic
\* input completes without error; per expanded column the number of
\* indicator columns equals the number of distinct cleaned values, and the
\* label never_married is present and holds only 0 or 1.
C10_EndToEnd ==
    FeatureBuilderActed =>
        /\ FeatureBuilderReturned
        /\ \A k \in 1..Len(OneHotColumns) :
              Cardinality(Indicators(features, OneHotColumns[k]))
                  = DistinctValues(clean_data, <<OneHotColumns[k]>>)
        /\ LabelPresent(features)

HasLowBracket(df) ==
    \E i \in RowIds(df) : df.rows[i].v[<<"income_bracket">>] = <<"<=50K">>

\* C10 as amended: the Feature Builder completes exactly when some cleaned
\* row has income_bracket '<=50K' (else line 112 raises KeyError); when it
\* completes, the indicator count equals the distinct count for the six other
\* columns and the distinct count minus one for income_bracket, and the label
\* is present, holds only 0 or 1, and is 1 exactly for 'Never-married'.
C10_EndToEndLowBracket ==
    FeatureBuilderActed =>
        /\ FeatureBuilderReturned <=> HasLowBracket(clean_data)
        /\ FeatureBuilderReturned =>
              /\ \A k \in 1..Len(OneHotColumns) :
                    Cardinality(Indicators(features, OneHotColumns[k]))
                        = DistinctValues(clean_data, <<OneHotColumns[k]>>)
                          - (IF OneHotColumns[k] = "income_bracket" THEN 1 ELSE 0)
              /\ LabelPresent(features)
              /\ LabelMatches

\* two cleaned rows of different bracket, sex and label went through
C10_Witness ==
    /\ FeatureBuilderReturned
    /\ Len(clean_data.rows) = 2
    /\ DistinctValues(clean_data, <<"income_bracket">>) = 2
    /\ DistinctValues(clean_data, <<"workclass">>) = 2
    /\ {features.rows[i].v[<<"never_married">>] : i \in RowIds(features)} = {0, 1}

----------------------------------------------------------------------------
(* Properties of the age binning (SpecBin) *)

Binned(lo, hi, label) ==
    (lo <= age /\ age <= hi) => (~age_bins.na /\ age_bins.v = label)

\* C5: ages 16-29 give bucket 1, 30-39 give 2, 40-49 give 3, 50-59 give 4,
\* 60-100 give 5, and every age outside [16,100] is left unmapped.
C5_AgeBins ==
    bpc = "binned" =>
        /\ Binned(16, 29, 1) /\ Binned(30, 39, 2) /\ Binned(40, 49, 3)
        /\ Binned(50, 59, 4) /\ Binned(60, 100, 5)
        /\ (age < 16 \/ age > 100) => age_bins.na

\* C5 as amended: the lowest edge is exclusive, so bucket 1 is 17-29 and
\* every age outside [17,100], 16 included, is left unmapped.
C5_AgeBinsOpenLowestEdge ==
    bpc = "binned" =>
        /\ Binned(17, 29, 1) /\ Binned(30, 39, 2) /\ Binned(40, 49, 3)
        /\ Binned(50, 59, 4) /\ Binned(60, 100, 5)
        /\ (age < 17 \/ age > 100) => age_bins.na

\* the lowest edge itself has been binned and is unmapped
C5_Witness == bpc = "binned" /\ age = 16 /\ age_bins.na

----------------------------------------------------------------------------
(* Properties of one DAG run (Spec) *)

StageEnded == state["cross_validation"] \in {"success", "failed", "up_for_retry"}

\* C1: once the tracked run has been started it is closed on every exit
\* path: when cross_validation ends, normally or by an exception raised by
\* any step inside the with block, the run is not left open.
C1_RunClosedOnExit ==
    StageEnded =>
        /\ run_status # "RUNNING"
        /\ state["cross_validation"] = "success" => run_status = "FINISHED"
        /\ failed_at \in {"cv", "train", "predict", "classification_report",
                          "confusion_matrix", "confusion_matrix_plot",
                          "roc_curve"} => run_status = "FAILED"

\* the upload of the last artifact raised after the run had been started
C1_Witness ==
    /\ state["cross_validation"] = "failed"
    /\ failed_at = "roc_curve"
    /\ run_status = "FAILED"

\* C2: an error of experiment creation is tolerated only when it is 'already
\* exists'; any other error is fatal: the stage aborts there and neither
\* selects the experiment nor starts a run.
C2_OnlyAlreadyExistsTolerated ==
    /\ create_exc = "already_exists" => failed_at # "create_experiment"
    /\ create_exc = "other" =>
          /\ state["cross_validation"] = "failed"
          /\ failed_at = "create_experiment"
          /\ active_experiment = ""
          /\ run_status = "none"

Started(t) == try_number[t] >= 1

\* C3: the four stages run in the order load_data, preprocessing,
\* feature_engineering, cross_validation: a stage starts only after its
\* predecessor succeeded and handed over its output, no two stages are
\* active at once, no stage is retried, and after a failed stage no later
\* stage executes.
C3_StrictSequence ==
    /\ \A k \in 2..Len(Tasks) :
          Started(Tasks[k]) =>
              state[Tasks[k - 1]] = "success" /\ Tasks[k - 1] \in xcom
    /\ Cardinality({t \in TaskSet : state[t] = "running"}) <= 1
    /\ \A t \in TaskSet : try_number[t] <= 1
    /\ \A j, k \in 1..Len(Tasks) :
          (j < k /\ state[Tasks[j]] \in {"failed", "upstream_failed", "up_for_retry"})
              => ~Started(Tasks[k])

\* all four stages ran, one after the other
C3_Witness ==
    /\ state = [t \in TaskSet |-> "success"]
    /\ xcom = DataTasks
    /\ try_number = [t \in TaskSet |-> 1]

ConfusionMatrixActed ==
    \/ pc \in {"confusion_matrix_plot", "roc_curve", "returned"}
    \/ /\ pc = "raised"
       /\ \/ failed_at \in {"confusion_matrix_plot", "roc_curve"}
          \/ failed_at = "confusion_matrix" /\ raised = "ValueError"

\* C8: whatever validation labels and class predictions reach the
\* confusion-matrix step, the four cell counts are logged and their sum is
\* the number of validation rows, also when only one class occurs.
C8_ConfusionCellsSumToRows ==
    ConfusionMatrixActed =>
        \E tp, tn, fp, fn \in 0..Len(y_val) :
            /\ metrics = {<<"True Positive", tp>>, <<"True Negative", tn>>,
                          <<"False Positive", fp>>, <<"False Negatives", fn>>}
            /\ tp + tn + fp + fn = Len(y_val)

----------------------------------------------------------------------------
(* Properties of concurrent DAG runs (SpecConc) *)

ExperimentCount ==
    Cardinality({i \in 1..Len(cexperiments) : cexperiments[i] = ExperimentName})

PastCreate(r) == cpc[r] # "create_experiment"

ConcSafe ==
    /\ ExperimentCount <= 1
    /\ (\E r \in Runs : PastCreate(r)) => ExperimentCount = 1
    /\ \A r \in Runs :
          /\ cexc[r] \in {"none", "already_exists"}
          /\ cpc[r] = "raised" => cruns[r] = "FAILED"
          /\ cpc[r] \in {"in_run", "returned"} => cruns[r] # "none"
    /\ Cardinality({r \in Runs : PastCreate(r) /\ cexc[r] = "none"}) <= 1

AllStarted == \A r \in Runs : cruns[r] # "none"

====
